---- MODULE Spec2Model ----
(***************************************************************************)
(* TaskOrchestrationService (services/task_orchestration/service.py).      *)
(*                                                                         *)
(* The task store, the subscription table, the notification deque and the  *)
(* scheduler's job store are the shared state.  Three threads of control   *)
(* act on it: the scheduler's event loop, which fires jobs and runs        *)
(* consume_task; one external caller ("client") of the public methods; and *)
(* one reader draining get_notifications.  Every step below is one access  *)
(* to shared state (one session transaction, one deque append or popleft,  *)
(* one add_job), together with the local computation that follows it.      *)
(***************************************************************************)
EXTENDS Naturals, Sequences, FiniteSets

\* ------------------------------------------------------------------ bounds
MaxTasks == 2
MaxSubs == 1
MaxOps == 3
MaxFires == 2
\* calls started when the threads run side by side
MaxParOps == 2

\* ------------------------------------------------------------------ values
None == "None"
TaskIds == 1..MaxTasks

\* Task.result: None, the dict _process_task returns, the dict the handler
\* of consume_task builds from the exception
NoResult == [none |-> TRUE]
Processed == [result |-> "Task processed successfully"]
ErrorOf(e) == [error |-> e]

\* the row of a task identifier that is not in the task table
NoTask == [absent |-> TRUE]

\* TaskCreate payloads handed to create_task
TaskCreates ==
    { [author_id |-> "f1", assignee_id |-> "f2", category |-> "email",
       state |-> "draft", status |-> "pending", cron_expression |-> None],
      [author_id |-> "f1", assignee_id |-> "f1", category |-> "report",
       state |-> "draft", status |-> "completed", cron_expression |-> "0 * * * *"] }

\* TaskUpdate payloads an external caller hands to update_task
\* (only the fields that were set: model_dump(exclude_unset=True))
EmptyPartial == [k \in {} |-> None]
TaskUpdates ==
    { EmptyPartial,
      [status |-> "completed", result |-> Processed],
      [status |-> "pending"],
      [status |-> "processing"],
      [state |-> "done"],
      [cron_expression |-> "0 * * * *"] }

\* arguments handed to subscribe_flow
SubscribeArgs ==
    { [flow_id |-> "f1", event_type |-> "task_created", category |-> None, state |-> None],
      [flow_id |-> "f2", event_type |-> "task_updated", category |-> None, state |-> None],
      [flow_id |-> "f2", event_type |-> "task_created", category |-> "email", state |-> None],
      [flow_id |-> "f1", event_type |-> "task_created", category |-> None, state |-> "draft"],
      [flow_id |-> "f1", event_type |-> "task_updated", category |-> "email", state |-> "draft"] }

\* arguments handed to unsubscribe_flow
UnsubscribeArgs ==
    { [flow_id |-> "f1", event_type |-> "task_created", category |-> None, state |-> None],
      [flow_id |-> "f2", event_type |-> "task_created", category |-> "email", state |-> None] }

Procs == {"sched", "client"}

VARIABLES
    tasks,      \* task table: task id -> row, NoTask when the id has no row
    nextId,     \* the identifier the next inserted task gets
    subs,       \* subscription table, rows in insertion order
    queue,      \* notification_queue (diskcache Deque)
    jobs,       \* scheduler job store: job id -> "none" | "date" | "cron"
    pc,         \* where each thread of control stands
    call,       \* locals of the update_task / create_task / _notify in flight
    ret,        \* how each thread's last finished call ended
    cons,       \* locals of the consume_task in flight (or last finished)
    rbuf,       \* get_notifications: the local list `notifications`
    rpc,        \* get_notifications: "idle" | "drain"
    rret,       \* get_notifications: the list last returned
    rsnap,      \* the queue as it was when the drain in flight was called
    nops,       \* calls of the public methods started
    nfires,     \* jobs fired
    hist        \* history, per task id: processing steps run (ran), and
                \* whether an external update_task has set the status (ext)

vars == <<tasks, nextId, subs, queue, jobs, pc, call, ret, cons,
          rbuf, rpc, rret, rsnap, nops, nfires, hist>>

reader == <<rbuf, rpc, rret, rsnap>>
budget == <<nops, nfires>>

NoCall == [op |-> "none"]
NoRet == [op |-> "none", err |-> "none", val |-> NoTask]
NoCons == [tid |-> 0, task |-> NoTask, step |-> "none", exc |-> "none", wrote |-> <<>>]

Init ==
    /\ tasks = [t \in TaskIds |-> NoTask]
    /\ nextId = 1
    /\ subs = <<>>
    /\ queue = <<>>
    /\ jobs = [t \in TaskIds |-> "none"]
    /\ pc = [p \in Procs |-> "idle"]
    /\ call = [p \in Procs |-> NoCall]
    /\ ret = [p \in Procs |-> NoRet]
    /\ cons = NoCons
    /\ rbuf = <<>>
    /\ rpc = "idle"
    /\ rret = <<>>
    /\ rsnap = <<>>
    /\ nops = 0
    /\ nfires = 0
    /\ hist = [t \in TaskIds |-> [ran |-> 0, ext |-> FALSE]]

\* ------------------------------------------------------- pure operations

\* Task.model_validate(task_create): the row as the payload describes it
Validated(tc, id) ==
    [id |-> id, author_id |-> tc.author_id, assignee_id |-> tc.assignee_id,
     category |-> tc.category, state |-> tc.state, status |-> tc.status,
     cron_expression |-> tc.cron_expression, result |-> NoResult]

\* create_task: the row it inserts
CreateRow(tc, id) == [Validated(tc, id) EXCEPT !.status = "pending"]

\* a setattr that also clears the stored result
SetAttrClearsResult(row, loaded, key, value) ==
    [row EXCEPT ![key] = value, !.result = IF key = "result" THEN value ELSE NoResult]

\* update_task: one setattr + commit on the object `loaded`, whose row is
\* now `row`.  The session writes the column only when the value set differs
\* from the one the object was loaded with.
SetAttr(row, loaded, key, value) ==
    IF loaded[key] = value THEN row ELSE [row EXCEPT ![key] = value]

\* update_task: the keys model_dump(exclude_unset=True) may yield next.  The
\* order is the field order of TaskUpdate, which the service does not fix.
NextKeys(upd) == DOMAIN upd

Without(upd, key) == [k \in DOMAIN upd \ {key} |-> upd[k]]

\* an entry that carries the status the task was created with
NotificationKeepsPending(task, event, flow) ==
    [task_id |-> task.id, flow_id |-> flow, event_type |-> event,
     category |-> task.category, state |-> task.state, status |-> "pending"]

\* _add_notification: the snapshot appended for one recipient
Notification(task, event, flow) ==
    [task_id |-> task.id, flow_id |-> flow, event_type |-> event,
     category |-> task.category, state |-> task.state, status |-> task.status]

\* _notify: the filter of its subscription query.  A NULL column equals no
\* value in SQL; a task's category and state are never None here, so the
\* plain equality below is FALSE for an unset filter, as in SQL.
NotifyFilter(s, task) ==
    \/ (s.category = task.category /\ s.state = task.state)
    \/ (s.category = None /\ s.state = None)

\* _notify: the rows its query returns, in table order
SelectSubscriptions(table, task) ==
    SelectSeq(table, LAMBDA s : NotifyFilter(s, task))

\* _schedule_task: the trigger of the job it adds
Trigger(task) == IF task.cron_expression # None THEN "cron" ELSE "date"

\* add_job without replace_existing: a job already stored under the id stays
ScheduleTaskKeepsExisting(store, task) ==
    IF store[task.id] # "none" THEN store
    ELSE [store EXCEPT ![task.id] = Trigger(task)]

\* _schedule_task: add_job(id=str(task.id), replace_existing=True).  The job
\* store keeps its jobs under their id (its primary key).
ScheduleTask(store, task) == [store EXCEPT ![task.id] = Trigger(task)]

\* a guard that refuses only a task being processed
ConsumeRefusesProcessingOnly(task) == task.status = "processing"

\* consume_task: the guard that refuses a task
ConsumeRefuses(task) == task.status # "pending"

\* a consume_task that hands a processed task back as pending
ConsumePartialResetsPending(c) ==
    CASE c.step = "processing" ->
            [status |-> "processing", state |-> c.task.state]
      [] c.step = "completed" ->
            [status |-> "pending", state |-> c.task.state, result |-> Processed]
      [] c.step = "failed" ->
            [status |-> "failed", state |-> c.task.state, result |-> ErrorOf(c.exc)]

\* the handler of consume_task setting the status without the error payload
ConsumePartialDropsError(c) ==
    CASE c.step = "processing" ->
            [status |-> "processing", state |-> c.task.state]
      [] c.step = "completed" ->
            [status |-> "completed", state |-> c.task.state, result |-> Processed]
      [] c.step = "failed" ->
            [status |-> "failed", state |-> c.task.state]

\* consume_task: the TaskUpdate of each of its three update_task calls
ConsumePartial(c) ==
    CASE c.step = "processing" ->
            [status |-> "processing", state |-> c.task.state]
      [] c.step = "completed" ->
            [status |-> "completed", state |-> c.task.state, result |-> Processed]
      [] c.step = "failed" ->
            [status |-> "failed", state |-> c.task.state, result |-> ErrorOf(c.exc)]

\* _process_task stands for the category's processing logic: it returns its
\* result or raises
ProcessOutcomes == {"ok", "ProcessingError"}

\* Deque.pop in place of popleft: the newest entry is taken
PopRight(q) == <<q[Len(q)], SubSeq(q, 1, Len(q) - 1)>>

\* diskcache Deque.popleft: the entry taken and the entries left
PopLeft(q) == <<Head(q), Tail(q)>>

\* the frame of an update_task / create_task call: its argument, the keys
\* of the partial still to apply, the task object, and for _notify the
\* subscription rows its query read (seen), those it returned (found),
\* those still to notify (rcpts) and the entries appended so far (out)
Frame(op, row, arg, event) ==
    [op |-> op, tid |-> row.id, arg |-> arg,
     upd |-> IF op = "update_task" THEN arg ELSE EmptyPartial,
     task |-> row, event |-> event,
     seen |-> <<>>, found |-> <<>>, rcpts |-> <<>>, out |-> <<>>]

\* ------------------------------------------------------ call and return

ClientDone(op, err, val, frame) ==
    /\ pc' = [pc EXCEPT !["client"] = "idle"]
    /\ ret' = [ret EXCEPT !["client"] = [op |-> op, err |-> err, val |-> val]]
    /\ call' = [call EXCEPT !["client"] = frame]
    /\ UNCHANGED cons

\* consume_task ends: it returns (err = "ok") or the error leaves it
ConsumeDone(err, frame) ==
    /\ pc' = [pc EXCEPT !["sched"] = "idle"]
    /\ ret' = [ret EXCEPT !["sched"] = [op |-> "consume_task", err |-> err, val |-> NoTask]]
    /\ call' = [call EXCEPT !["sched"] = frame]
    /\ UNCHANGED cons

\* an update_task called by consume_task raised err: the one inside the try
\* block is caught and the failed update follows, the others leave consume_task
ConsumeRaised(err) ==
    IF cons.step = "completed"
    THEN /\ cons' = [cons EXCEPT !.step = "failed", !.exc = err]
         /\ pc' = [pc EXCEPT !["sched"] = "u_select"]
         /\ call' = [call EXCEPT !["sched"] = NoCall]
         /\ UNCHANGED ret
    ELSE ConsumeDone(err, NoCall)

\* update_task raised err in thread p
Raised(p, err) ==
    IF p = "client" THEN ClientDone("update_task", err, NoTask, NoCall)
    ELSE ConsumeRaised(err)

\* _notify has appended its last entry in thread p; frame is the finished frame
Notified(p, frame) ==
    IF p = "client"
    THEN IF frame.op = "create_task"
         THEN /\ pc' = [pc EXCEPT ![p] = "schedule"]
              /\ call' = [call EXCEPT ![p] = frame]
              /\ UNCHANGED <<ret, cons>>
         ELSE ClientDone("update_task", "ok", frame.task, frame)
    ELSE IF cons.step = "processing"
         THEN /\ pc' = [pc EXCEPT ![p] = "c_process"]
              /\ call' = [call EXCEPT ![p] = frame]
              /\ UNCHANGED <<ret, cons>>
         ELSE ConsumeDone("ok", frame)

\* ------------------------------------------------------------ update_task

\* the select at the head of update_task, for the call update_task(tid, upd)
UpdSelect(p, tid, upd) ==
    /\ IF tasks[tid] = NoTask
       THEN Raised(p, "NotFound")
       ELSE /\ pc' = [pc EXCEPT ![p] = IF NextKeys(upd) = {} THEN "n_author" ELSE "u_commit"]
            /\ call' = [call EXCEPT ![p] = Frame("update_task", tasks[tid], upd, "task_updated")]
            /\ UNCHANGED <<ret, cons>>
    /\ UNCHANGED <<tasks, nextId, subs, queue, jobs, reader>>

\* a loop turn that also schedules the task again after its commit
UpdCommitReschedules(p) ==
    /\ pc[p] = "u_commit"
    /\ \E key \in NextKeys(call[p].upd) :
         LET c == call[p]
             rest == Without(c.upd, key)
         IN  IF tasks[c.tid] = NoTask
             THEN /\ Raised(p, "StaleData")
                  /\ UNCHANGED <<tasks, jobs, hist>>
             ELSE /\ tasks' = [tasks EXCEPT ![c.tid] = SetAttr(@, c.task, key, c.upd[key])]
                  /\ jobs' = ScheduleTask(jobs, tasks'[c.tid])
                  /\ call' = [call EXCEPT ![p] = [c EXCEPT !.upd = rest, !.task = tasks'[c.tid]]]
                  /\ pc' = [pc EXCEPT ![p] = IF NextKeys(rest) = {} THEN "n_author" ELSE "u_commit"]
                  /\ cons' = IF p = "sched" /\ key = "status"
                             THEN [cons EXCEPT !.wrote = Append(@, c.upd[key])]
                             ELSE cons
                  /\ hist' = IF p = "client" /\ key = "status"
                             THEN [hist EXCEPT ![c.tid].ext = TRUE]
                             ELSE hist
                  /\ UNCHANGED ret
    /\ UNCHANGED <<nextId, subs, queue, reader, budget>>

\* one turn of the loop of update_task: setattr, commit, refresh
UpdCommit(p) ==
    /\ pc[p] = "u_commit"
    /\ \E key \in NextKeys(call[p].upd) :
         LET c == call[p]
             rest == Without(c.upd, key)
         IN  IF tasks[c.tid] = NoTask
             THEN /\ Raised(p, "StaleData")
                  /\ UNCHANGED <<tasks, hist>>
             ELSE /\ tasks' = [tasks EXCEPT ![c.tid] = SetAttr(@, c.task, key, c.upd[key])]
                  /\ call' = [call EXCEPT ![p] = [c EXCEPT !.upd = rest, !.task = tasks'[c.tid]]]
                  /\ pc' = [pc EXCEPT ![p] = IF NextKeys(rest) = {} THEN "n_author" ELSE "u_commit"]
                  /\ cons' = IF p = "sched" /\ key = "status"
                             THEN [cons EXCEPT !.wrote = Append(@, c.upd[key])]
                             ELSE cons
                  /\ hist' = IF p = "client" /\ key = "status"
                             THEN [hist EXCEPT ![c.tid].ext = TRUE]
                             ELSE hist
                  /\ UNCHANGED ret
    /\ UNCHANGED <<nextId, subs, queue, jobs, reader, budget>>

\* ---------------------------------------------------------------- _notify

Appended(c, flow) ==
    [c EXCEPT !.out = Append(@, Notification(c.task, c.event, flow))]

NotifyAuthor(p) ==
    /\ pc[p] = "n_author"
    /\ queue' = Append(queue, Notification(call[p].task, call[p].event, call[p].task.author_id))
    /\ call' = [call EXCEPT ![p] = Appended(@, @.task.author_id)]
    /\ pc' = [pc EXCEPT ![p] = "n_assignee"]
    /\ UNCHANGED <<tasks, nextId, subs, jobs, ret, cons, reader, budget, hist>>

NotifyAssignee(p) ==
    /\ pc[p] = "n_assignee"
    /\ queue' = Append(queue, Notification(call[p].task, call[p].event, call[p].task.assignee_id))
    /\ call' = [call EXCEPT ![p] = Appended(@, @.task.assignee_id)]
    /\ pc' = [pc EXCEPT ![p] = "n_select"]
    /\ UNCHANGED <<tasks, nextId, subs, jobs, ret, cons, reader, budget, hist>>

NotifySelect(p) ==
    /\ pc[p] = "n_select"
    /\ LET c == call[p]
           found == SelectSubscriptions(subs, c.task)
           frame == [c EXCEPT !.seen = subs, !.found = found, !.rcpts = found]
       IN  IF found = <<>>
           THEN Notified(p, frame)
           ELSE /\ pc' = [pc EXCEPT ![p] = "n_subs"]
                /\ call' = [call EXCEPT ![p] = frame]
                /\ UNCHANGED <<ret, cons>>
    /\ UNCHANGED <<tasks, nextId, subs, queue, jobs, reader, budget, hist>>

NotifySubscriber(p) ==
    /\ pc[p] = "n_subs"
    /\ LET c == call[p]
           flow == Head(c.rcpts).flow_id
           frame == [Appended(c, flow) EXCEPT !.rcpts = Tail(c.rcpts)]
       IN  /\ queue' = Append(queue, Notification(c.task, c.event, flow))
           /\ IF frame.rcpts = <<>>
              THEN Notified(p, frame)
              ELSE /\ pc' = [pc EXCEPT ![p] = "n_subs"]
                   /\ call' = [call EXCEPT ![p] = frame]
                   /\ UNCHANGED <<ret, cons>>
    /\ UNCHANGED <<tasks, nextId, subs, jobs, reader, budget, hist>>

\* ------------------------------------------------- the external caller

create_task(tc) ==
    /\ pc["client"] = "idle"
    /\ nops < MaxOps
    /\ nextId <= MaxTasks
    /\ LET row == CreateRow(tc, nextId)
       IN  /\ tasks' = [tasks EXCEPT ![nextId] = row]
           /\ call' = [call EXCEPT !["client"] = Frame("create_task", row, tc, "task_created")]
    /\ nextId' = nextId + 1
    /\ pc' = [pc EXCEPT !["client"] = "n_author"]
    /\ nops' = nops + 1
    /\ UNCHANGED <<subs, queue, jobs, ret, cons, reader, nfires, hist>>

\* the last statement of create_task: _schedule_task(task_read)
Schedule ==
    /\ pc["client"] = "schedule"
    /\ jobs' = ScheduleTask(jobs, call["client"].task)
    /\ ClientDone("create_task", "ok", call["client"].task, call["client"])
    /\ UNCHANGED <<tasks, nextId, subs, queue, reader, budget, hist>>

\* _schedule_task called again for a stored task.  create_task is its only
\* caller in the service and always passes a new identifier, so this is a
\* direct call with the task as get_task returns it.
schedule_task(tid) ==
    /\ pc["client"] = "idle"
    /\ nops < MaxOps
    /\ tasks[tid] # NoTask
    /\ jobs' = ScheduleTask(jobs, tasks[tid])
    /\ ClientDone("schedule_task", "ok", tasks[tid], NoCall)
    /\ nops' = nops + 1
    /\ UNCHANGED <<tasks, nextId, subs, queue, reader, nfires, hist>>

update_task(tid, upd) ==
    /\ pc["client"] = "idle"
    /\ nops < MaxOps
    /\ UpdSelect("client", tid, upd)
    /\ nops' = nops + 1
    /\ UNCHANGED <<nfires, hist>>

get_task(tid) ==
    /\ pc["client"] = "idle"
    /\ nops < MaxOps
    /\ IF tasks[tid] = NoTask
       THEN ClientDone("get_task", "NotFound", NoTask, NoCall)
       ELSE ClientDone("get_task", "ok", tasks[tid], NoCall)
    /\ nops' = nops + 1
    /\ UNCHANGED <<tasks, nextId, subs, queue, jobs, reader, nfires, hist>>

\* a delete_task that also removes the job stored under the identifier
DeleteCancelsJob(tid) ==
    /\ pc["client"] = "idle"
    /\ nops < MaxOps
    /\ IF tasks[tid] = NoTask
       THEN /\ ClientDone("delete_task", "NotFound", NoTask, NoCall)
            /\ UNCHANGED <<tasks, jobs>>
       ELSE /\ tasks' = [tasks EXCEPT ![tid] = NoTask]
            /\ jobs' = [jobs EXCEPT ![tid] = "none"]
            /\ ClientDone("delete_task", "ok", NoTask, NoCall)
    /\ nops' = nops + 1
    /\ UNCHANGED <<nextId, subs, queue, reader, nfires, hist>>

\* a delete_task that returns normally when the row is missing
DeleteIgnoresMissing(tid) ==
    /\ pc["client"] = "idle"
    /\ nops < MaxOps
    /\ tasks' = [tasks EXCEPT ![tid] = NoTask]
    /\ ClientDone("delete_task", "ok", NoTask, NoCall)
    /\ nops' = nops + 1
    /\ UNCHANGED <<nextId, subs, queue, jobs, reader, nfires, hist>>

delete_task(tid) ==
    /\ pc["client"] = "idle"
    /\ nops < MaxOps
    /\ IF tasks[tid] = NoTask
       THEN /\ ClientDone("delete_task", "NotFound", NoTask, NoCall)
            /\ UNCHANGED tasks
       ELSE /\ tasks' = [tasks EXCEPT ![tid] = NoTask]
            /\ ClientDone("delete_task", "ok", NoTask, NoCall)
    /\ nops' = nops + 1
    /\ UNCHANGED <<nextId, subs, queue, jobs, reader, nfires, hist>>

subscribe_flow(a) ==
    /\ pc["client"] = "idle"
    /\ nops < MaxOps
    /\ Len(subs) < MaxSubs
    /\ subs' = Append(subs, a)
    /\ ClientDone("subscribe_flow", "ok", NoTask, NoCall)
    /\ nops' = nops + 1
    /\ UNCHANGED <<tasks, nextId, queue, jobs, reader, nfires, hist>>

\* unsubscribe_flow: session.exec(select(Subscription)...) hands back the
\* result of the executed select, an object that has neither a filter nor a
\* delete method; the call of the first of them that is reached (filter when
\* a category or state is given, delete otherwise) raises AttributeError, the
\* commit is not reached and no row is removed.
unsubscribe_flow(a) ==
    /\ pc["client"] = "idle"
    /\ nops < MaxOps
    /\ ClientDone("unsubscribe_flow", "AttributeError", NoTask, NoCall)
    /\ nops' = nops + 1
    /\ UNCHANGED <<tasks, nextId, subs, queue, jobs, reader, nfires, hist>>

\* ------------------------------------------ the scheduler and consume_task

\* the scheduler runs the job of task j: a job without a trigger runs once
\* and leaves the job store, a cron job stays
Fire(j) ==
    /\ pc["sched"] = "idle"
    /\ nfires < MaxFires
    /\ jobs[j] # "none"
    /\ jobs' = [jobs EXCEPT ![j] = IF @ = "date" THEN "none" ELSE @]
    /\ cons' = [NoCons EXCEPT !.tid = j]
    /\ pc' = [pc EXCEPT !["sched"] = "c_get"]
    /\ nfires' = nfires + 1
    /\ UNCHANGED <<tasks, nextId, subs, queue, call, ret, reader, nops, hist>>

\* consume_task: get_task and the status guard
ConsumeGet ==
    /\ pc["sched"] = "c_get"
    /\ LET row == tasks[cons.tid]
       IN  IF row = NoTask
           THEN ConsumeDone("NotFound", NoCall)
           ELSE IF ConsumeRefuses(row)
                THEN ConsumeDone("InvalidState", NoCall)
                ELSE /\ cons' = [cons EXCEPT !.task = row, !.step = "processing"]
                     /\ pc' = [pc EXCEPT !["sched"] = "u_select"]
                     /\ UNCHANGED <<call, ret>>
    /\ UNCHANGED <<tasks, nextId, subs, queue, jobs, reader, budget, hist>>

\* consume_task calls update_task
ConsumeUpdate ==
    /\ pc["sched"] = "u_select"
    /\ UpdSelect("sched", cons.tid, ConsumePartial(cons))
    /\ UNCHANGED <<budget, hist>>

\* consume_task: _process_task returns or raises
ConsumeProcess ==
    /\ pc["sched"] = "c_process"
    /\ \E outcome \in ProcessOutcomes :
         cons' = IF outcome = "ok"
                 THEN [cons EXCEPT !.step = "completed"]
                 ELSE [cons EXCEPT !.step = "failed", !.exc = outcome]
    /\ pc' = [pc EXCEPT !["sched"] = "u_select"]
    /\ hist' = [hist EXCEPT ![cons.tid].ran = @ + 1]
    /\ UNCHANGED <<tasks, nextId, subs, queue, jobs, call, ret, reader, budget>>

\* ------------------------------------------------------ get_notifications

\* the call: notifications = []
get_notifications ==
    /\ rpc = "idle"
    /\ nops < MaxOps
    /\ nops' = nops + 1
    /\ rsnap' = queue
    /\ rbuf' = <<>>
    /\ rpc' = "drain"
    /\ UNCHANGED <<tasks, nextId, subs, queue, jobs, pc, call, ret, cons, rret, nfires, hist>>

\* one turn of its loop: popleft, or return when the deque is empty
Drain ==
    /\ rpc = "drain"
    /\ IF queue = <<>>
       THEN /\ rret' = rbuf
            /\ rbuf' = <<>>
            /\ rpc' = "idle"
            /\ UNCHANGED queue
       ELSE /\ rbuf' = Append(rbuf, PopLeft(queue)[1])
            /\ queue' = PopLeft(queue)[2]
            /\ UNCHANGED <<rret, rpc>>
    /\ UNCHANGED <<tasks, nextId, subs, jobs, pc, call, ret, cons, rsnap, budget, hist>>

\* ---------------------------------------------------------- specification

\* the scheduler's event loop, the external caller and the reader run side
\* by side
Next ==
    \/ \E tc \in TaskCreates : nops < MaxParOps /\ create_task(tc)
    \/ Schedule
    \/ \E tid \in TaskIds, upd \in TaskUpdates : nops < MaxParOps /\ update_task(tid, upd)
    \/ \E tid \in TaskIds : nops < MaxParOps /\ get_task(tid)
    \/ \E tid \in TaskIds : nops < MaxParOps /\ delete_task(tid)
    \/ \E a \in SubscribeArgs : nops < MaxParOps /\ subscribe_flow(a)
    \/ \E tid \in TaskIds : nops < MaxParOps /\ schedule_task(tid)
    \/ \E a \in UnsubscribeArgs : nops < MaxParOps /\ unsubscribe_flow(a)
    \/ \E j \in TaskIds : Fire(j)
    \/ ConsumeGet
    \/ ConsumeUpdate
    \/ ConsumeProcess
    \/ \E p \in Procs : UpdCommit(p)
    \/ \E p \in Procs : NotifyAuthor(p)
    \/ \E p \in Procs : NotifyAssignee(p)
    \/ \E p \in Procs : NotifySelect(p)
    \/ \E p \in Procs : NotifySubscriber(p)
    \/ nops < MaxParOps /\ get_notifications
    \/ Drain

Spec == Init /\ [][Next]_vars

\* the threads in the middle of a call
Busy == {p \in Procs : pc[p] # "idle"} \cup (IF rpc = "idle" THEN {} ELSE {"reader"})

\* thread p may step: no other thread is in the middle of a call
Alone(p) == Busy \subseteq {p}

\* the same operations, each call running to its end before the next starts
NextSeq ==
    \/ \E tc \in TaskCreates : Alone("client") /\ create_task(tc)
    \/ Alone("client") /\ Schedule
    \/ \E tid \in TaskIds, upd \in TaskUpdates : Alone("client") /\ update_task(tid, upd)
    \/ \E tid \in TaskIds : Alone("client") /\ get_task(tid)
    \/ \E tid \in TaskIds : Alone("client") /\ delete_task(tid)
    \/ \E a \in SubscribeArgs : Alone("client") /\ subscribe_flow(a)
    \/ \E tid \in TaskIds : Alone("client") /\ schedule_task(tid)
    \/ \E a \in UnsubscribeArgs : Alone("client") /\ unsubscribe_flow(a)
    \/ \E j \in TaskIds : Alone("sched") /\ Fire(j)
    \/ Alone("sched") /\ ConsumeGet
    \/ Alone("sched") /\ ConsumeUpdate
    \/ Alone("sched") /\ ConsumeProcess
    \/ \E p \in Procs : Alone(p) /\ UpdCommit(p)
    \/ \E p \in Procs : Alone(p) /\ NotifyAuthor(p)
    \/ \E p \in Procs : Alone(p) /\ NotifyAssignee(p)
    \/ \E p \in Procs : Alone(p) /\ NotifySelect(p)
    \/ \E p \in Procs : Alone(p) /\ NotifySubscriber(p)
    \/ Alone("reader") /\ get_notifications
    \/ Alone("reader") /\ Drain

SpecSeq == Init /\ [][NextSeq]_vars

\* ------------------------------------------------------------------ claims

Range(f) == {f[i] : i \in DOMAIN f}
LastN(q, n) == SubSeq(q, Len(q) - n + 1, Len(q))

\* thread p ends a consume_task in this step
ConsumeEnds == pc["sched"] # "idle" /\ pc'["sched"] = "idle"

\* the frame of thread p has run the subscription query of _notify
AfterSelect(p) ==
    /\ call[p].op # "none"
    /\ pc[p] \notin {"u_commit", "n_author", "n_assignee", "n_select"}

\* the frame of thread p has appended its last entry
AfterNotify(p) == AfterSelect(p) /\ pc[p] # "n_subs"

\* a subscription matches an event as the data model describes it: the
\* event types are equal and each filter is unset or equal to the task's value
Satisfies(s, task) ==
    /\ s.category = None \/ s.category = task.category
    /\ s.state = None \/ s.state = task.state

Matches(s, task, event) == s.event_type = event /\ Satisfies(s, task)

\* the entries of one fan-out: author, assignee, then one per subscription
Fanout(task, event, rows) ==
    <<Notification(task, event, task.author_id),
      Notification(task, event, task.assignee_id)>>
    \o [i \in 1..Len(rows) |-> Notification(task, event, rows[i].flow_id)]

\* C1: the stored status of a task changes only from pending to processing
\* and from processing to completed or failed.
StatusMoves ==
    {<<"pending", "processing">>, <<"processing", "completed">>,
     <<"processing", "failed">>}

C1_StatusFollowsLifecycle ==
    [][\A t \in TaskIds :
         (/\ tasks[t] # NoTask
          /\ tasks'[t] # NoTask
          /\ tasks'[t].status # tasks[t].status)
         => <<tasks[t].status, tasks'[t].status>> \in StatusMoves]_vars

\* C2: consume_task on a stored task whose status is not pending ends with
\* the InvalidState error and changes neither the task table, the
\* notification queue nor the job store.
C2_ConsumeRefusesNonPending ==
    [][(/\ pc["sched"] = "c_get"
        /\ pc'["sched"] # "c_get"
        /\ tasks[cons.tid] # NoTask
        /\ tasks[cons.tid].status # "pending")
       => /\ pc'["sched"] = "idle"
          /\ ret'["sched"] = [op |-> "consume_task", err |-> "InvalidState", val |-> NoTask]
          /\ UNCHANGED <<tasks, queue, jobs>>]_vars

\* a consume_task was refused on a task left completed or failed by an
\* earlier run
C2_Witness ==
    /\ pc["sched"] = "idle"
    /\ ret["sched"].err = "InvalidState"
    /\ tasks[cons.tid] # NoTask
    /\ tasks[cons.tid].status \in {"completed", "failed"}

\* C3: when the processing step of consume_task raises, consume_task returns
\* normally and leaves the task failed, its result carrying the error.
C3_ProcessingErrorBecomesFailed ==
    [][(ConsumeEnds /\ cons.exc = "ProcessingError")
       => /\ ret'["sched"] = [op |-> "consume_task", err |-> "ok", val |-> NoTask]
          /\ tasks'[cons.tid] # NoTask
          /\ tasks'[cons.tid].status = "failed"
          /\ tasks'[cons.tid].result = ErrorOf("ProcessingError")]_vars

\* a consume_task whose processing step raised has returned
C3_Witness ==
    /\ pc["sched"] = "idle"
    /\ ret["sched"] = [op |-> "consume_task", err |-> "ok", val |-> NoTask]
    /\ cons.exc = "ProcessingError"
    /\ cons.wrote = <<"processing", "failed">>
    /\ tasks[cons.tid].status = "failed"

\* C4: a consume_task that has set the status of its task to processing has,
\* when it ends, set it to completed or failed, whatever the external caller
\* did meanwhile.
C4_StartedConsumeFinalizes ==
    [][(ConsumeEnds /\ "processing" \in Range(cons'.wrote))
       => Range(cons'.wrote) \cap {"completed", "failed"} # {}]_vars

\* C5: among the subscriptions to the event's type, the fan-out notifies
\* exactly those whose category and state filters are each unset or equal to
\* the task's value.
C5_FiltersAreWildcardOrEqual ==
    \A p \in Procs :
        AfterSelect(p) =>
            \A i \in DOMAIN call[p].seen :
                LET s == call[p].seen[i]
                IN  s.event_type = call[p].event =>
                        (s \in Range(call[p].found) <=> Satisfies(s, call[p].task))

\* C6: a queue entry appended for a subscription carries the event type the
\* subscription asked for.
C6_EventTypeIsMatched ==
    \A p \in Procs :
        AfterSelect(p) =>
            \A i \in DOMAIN call[p].found :
                (i + 2 <= Len(call[p].out)) =>
                    call[p].out[i + 2].event_type = call[p].found[i].event_type

\* C7: an event appends one entry for the author, one for the assignee and
\* one for each subscription that matches it, duplicates included: 2 + the
\* number of matching subscriptions.
C7_FanoutCount ==
    \A p \in Procs :
        AfterNotify(p) =>
            LET c == call[p]
                matching == SelectSeq(c.seen, LAMBDA s : Matches(s, c.task, c.event))
            IN  /\ Len(c.out) = 2 + Len(matching)
                /\ c.out = Fanout(c.task, c.event, matching)

\* C8: get_notifications returns the entries that were in the queue, oldest
\* first, and leaves the queue empty; on an empty queue it returns the empty
\* list.
C8_DrainReturnsAllInOrder ==
    [][(rpc = "drain" /\ rpc' = "idle")
       => /\ rret' = rsnap
          /\ queue' = <<>>]_vars

\* a drain has returned the entries of two events in the order of their
\* appending
C8_Witness ==
    /\ rpc = "idle"
    /\ queue = <<>>
    /\ Len(rret) >= 4
    /\ rret[1].event_type = "task_created"
    /\ rret[Len(rret)].event_type = "task_updated"

\* C9: a drain takes only entries that were in the queue when it was called,
\* in their order, also when a writer appends while it runs: what it has
\* taken so far is always the head of that snapshot.
C9_DrainTakesSnapshotOnly ==
    rpc = "drain" =>
        /\ Len(rbuf) <= Len(rsnap)
        /\ rbuf = SubSeq(rsnap, 1, Len(rbuf))

\* C10: create_task stores the task with status pending whatever the payload
\* says, appends one task_created fan-out that begins with the author's and
\* the assignee's entry and consists of these two alone when no subscription
\* matches the event, and adds one job under the new identifier, a cron job
\* when the task has a cron expression, else a one-shot job.
C10_CreateStoresNotifiesSchedules ==
    [][(pc["client"] = "schedule" /\ pc'["client"] = "idle")
       => LET c == call["client"]
              row == [Validated(c.arg, c.tid) EXCEPT !.status = "pending"]
              matching == SelectSeq(c.seen, LAMBDA s : Matches(s, row, "task_created"))
          IN  /\ tasks'[c.tid] = row
              /\ ret'["client"] = [op |-> "create_task", err |-> "ok", val |-> row]
              /\ Len(c.out) >= 2
              /\ SubSeq(c.out, 1, 2) = Fanout(row, "task_created", <<>>)
              /\ matching = <<>> => Len(c.out) = 2
              /\ Len(queue') >= Len(c.out)
              /\ LastN(queue', Len(c.out)) = c.out
              /\ jobs[c.tid] = "none"
              /\ jobs' = [jobs EXCEPT ![c.tid] =
                            IF c.arg.cron_expression # None THEN "cron" ELSE "date"]]_vars

\* the fields of a task row
TaskFields ==
    {"id", "author_id", "assignee_id", "category", "state", "status",
     "cron_expression", "result"}

\* thread p returns from update_task in this step
UpdateReturns(p) ==
    /\ pc[p] \in {"n_select", "n_subs"}
    /\ call[p].op = "update_task"
    /\ pc'[p] \notin {"n_select", "n_subs"}

\* C11: update_task changes exactly the fields of its partial: every change
\* to a stored row is one field of the partial of an update_task in flight
\* on that row taking the partial's value, an update_task that returns
\* leaves every field of its partial at the partial's value (none at all
\* for the empty partial), and it has appended one task_updated fan-out.
C11_UpdateChangesPartialOnly ==
    /\ [][\A t \in TaskIds :
            (tasks[t] # NoTask /\ tasks'[t] # NoTask /\ tasks'[t] # tasks[t])
            => \E p \in Procs :
                 /\ pc[p] = "u_commit"
                 /\ call[p].tid = t
                 /\ \A k \in TaskFields :
                      tasks'[t][k] # tasks[t][k]
                      => /\ k \in DOMAIN call[p].arg
                         /\ tasks'[t][k] = call[p].arg[k]]_vars
    /\ [][\A p \in Procs :
            UpdateReturns(p)
            => LET c == call'[p]
               IN  /\ tasks'[c.tid] = tasks[c.tid]
                   /\ \A k \in DOMAIN c.arg : tasks'[c.tid][k] = c.arg[k]
                   /\ c.task = tasks'[c.tid]
                   /\ Len(c.out) >= 2
                   /\ c.out = Fanout(c.task, "task_updated", c.found)
                   /\ Len(queue') >= Len(c.out)
                   /\ LastN(queue', Len(c.out)) = c.out]_vars

\* update_task has returned after setting status and result of task 1, and
\* task 2 is stored as it was created
C11_Witness ==
    /\ pc["client"] = "idle"
    /\ ret["client"].op = "update_task"
    /\ ret["client"].err = "ok"
    /\ call["client"].tid = 1
    /\ call["client"].arg = [status |-> "completed", result |-> Processed]
    /\ tasks[1] # NoTask
    /\ tasks[1].status = "completed"
    /\ tasks[1].result = Processed
    /\ tasks[1].state = "draft"
    /\ tasks[2] # NoTask
    /\ tasks[2].status = "pending"

\* C12: get_task, update_task and delete_task called with an identifier
\* that has no row end at once with the NotFound error handed to the caller
\* and change neither the task table, the notification queue nor the job
\* store.
C12_MissingTaskIsNotFound ==
    [][\A tid \in TaskIds :
         (/\ tasks[tid] = NoTask
          /\ \/ get_task(tid)
             \/ delete_task(tid)
             \/ \E upd \in TaskUpdates : update_task(tid, upd))
         => /\ pc'["client"] = "idle"
            /\ ret'["client"].op \in {"get_task", "delete_task", "update_task"}
            /\ ret'["client"].err = "NotFound"
            /\ UNCHANGED <<tasks, queue, jobs>>]_vars

\* a call has failed with NotFound on an identifier without a row while
\* another task, entries in the queue and a job were there
C12_Witness ==
    /\ pc["client"] = "idle"
    /\ ret["client"].op \in {"update_task", "delete_task", "get_task"}
    /\ ret["client"].err = "NotFound"
    /\ \E t \in TaskIds : tasks[t] # NoTask
    /\ \E t \in TaskIds : tasks[t] = NoTask
    /\ queue # <<>>
    /\ \E t \in TaskIds : jobs[t] # "none"

\* C13: the job store holds one job per task identifier: scheduling a task
\* whose identifier already has a job puts the new trigger in the place of
\* the old one and touches no other job.
C13_RescheduleReplacesJob ==
    [][\A tid \in TaskIds :
         ((Schedule \/ schedule_task(tid)) /\ ret'["client"].val.id = tid)
         => /\ jobs'[tid] = Trigger(ret'["client"].val)
            /\ \A j \in TaskIds \ {tid} : jobs'[j] = jobs[j]]_vars

\* the one-shot job of a task created without a cron expression has been
\* replaced by a cron job after the task was given a cron expression
C13_Witness ==
    /\ pc["client"] = "idle"
    /\ ret["client"].op = "schedule_task"
    /\ nfires = 0
    /\ tasks[1] # NoTask
    /\ tasks[1].category = "email"
    /\ tasks[1].cron_expression # None
    /\ jobs[1] = "cron"

\* thread p is inside a call of update_task
InUpdate(p) ==
    \/ pc[p] = "u_select"
    \/ /\ pc[p] \in {"u_commit", "n_author", "n_assignee", "n_select", "n_subs"}
       /\ call[p].op = "update_task"

\* C14: no step of an update_task call changes the job store, from the call
\* to its return or its error, whether the external caller or consume_task
\* made the call and whatever the partial sets.
C14_UpdateLeavesJobStore ==
    [][(\/ \E p \in Procs : InUpdate(p) \/ InUpdate(p)'
        \/ (nops' # nops /\ ret'["client"].op = "update_task"))
       => jobs' = jobs]_vars

\* update_task has given a task a cron expression and the task's one-shot
\* job is still the one stored
C14_Witness ==
    /\ pc["client"] = "idle"
    /\ ret["client"].op = "update_task"
    /\ ret["client"].err = "ok"
    /\ call["client"].arg = [cron_expression |-> "0 * * * *"]
    /\ tasks[call["client"].tid] # NoTask
    /\ tasks[call["client"].tid].cron_expression = "0 * * * *"
    /\ jobs[call["client"].tid] = "date"

\* C15: delete_task on a stored task removes the row of that task alone and
\* leaves the job store as it is; when the job still stored under the
\* identifier fires, consume_task ends with NotFound and changes nothing.
C15_DeleteKeepsJob ==
    /\ [][\A tid \in TaskIds :
            (tasks[tid] # NoTask /\ delete_task(tid))
            => /\ ret'["client"] = [op |-> "delete_task", err |-> "ok", val |-> NoTask]
               /\ tasks'[tid] = NoTask
               /\ \A t \in TaskIds \ {tid} : tasks'[t] = tasks[t]
               /\ UNCHANGED <<jobs, queue, subs>>]_vars
    /\ [][(/\ pc["sched"] = "c_get"
           /\ pc'["sched"] # "c_get"
           /\ tasks[cons.tid] = NoTask)
          => /\ pc'["sched"] = "idle"
             /\ ret'["sched"] = [op |-> "consume_task", err |-> "NotFound", val |-> NoTask]
             /\ UNCHANGED <<tasks, queue, jobs, subs>>]_vars

\* the cron job of a deleted task has fired, consume_task has ended with
\* NotFound, the job is still stored and the other task is untouched
C15_Witness ==
    /\ pc["sched"] = "idle"
    /\ ret["sched"].err = "NotFound"
    /\ ret["client"].op = "delete_task"
    /\ ret["client"].err = "ok"
    /\ tasks[cons.tid] = NoTask
    /\ jobs[cons.tid] = "cron"
    /\ \E t \in TaskIds : tasks[t] # NoTask /\ tasks[t].status = "pending"

\* the subscriptions unsubscribe_flow(a) is to remove: those of the flow and
\* the event type that equal every filter given
Unsubscribed(s, a) ==
    /\ s.flow_id = a.flow_id
    /\ s.event_type = a.event_type
    /\ a.category = None \/ s.category = a.category
    /\ a.state = None \/ s.state = a.state

\* C16: unsubscribe_flow removes exactly the subscriptions of the flow and
\* event type that equal every filter given, and leaves the others in place.
C16_UnsubscribeRemovesMatching ==
    [][\A a \in UnsubscribeArgs :
         unsubscribe_flow(a)
         => subs' = SelectSeq(subs, LAMBDA s : ~Unsubscribed(s, a))]_vars

\* the entries q with the status field of each set to status
WithStatus(q, status) == [i \in DOMAIN q |-> [q[i] EXCEPT !.status = status]]

\* C17: for every task and recipient no task_updated entry stands in the
\* queue before the task_created entry, which carries status pending; and a
\* consume_task that returns has appended two task_updated fan-outs, the
\* first with status processing, the second with the final status completed
\* or failed that the task is stored with.
C17_NotificationsFollowLifecycle ==
    /\ [](\A i, j \in DOMAIN queue :
            (/\ i < j
             /\ queue[i].task_id = queue[j].task_id
             /\ queue[i].flow_id = queue[j].flow_id
             /\ queue[j].event_type = "task_created")
            => /\ queue[i].event_type = "task_created"
               /\ queue[j].status = "pending")
    /\ [][(ConsumeEnds /\ ret'["sched"].err = "ok")
          => LET final == call'["sched"].out
                 n == Len(final)
             IN  /\ n >= 2
                 /\ tasks'[cons.tid].status \in {"completed", "failed"}
                 /\ \A i \in 1..n :
                      /\ final[i].event_type = "task_updated"
                      /\ final[i].task_id = cons.tid
                      /\ final[i].status = tasks'[cons.tid].status
                 /\ Len(queue') >= 2 * n
                 /\ LastN(queue', 2 * n) = WithStatus(final, "processing") \o final]_vars

\* the queue holds the entries of a task from its creation to its
\* completion by consume_task
C17_Witness ==
    /\ pc["sched"] = "idle"
    /\ ret["sched"].err = "ok"
    /\ cons.wrote = <<"processing", "completed">>
    /\ Len(queue) >= 6
    /\ queue[1].event_type = "task_created"
    /\ queue[1].task_id = cons.tid
    /\ queue[Len(queue)].event_type = "task_updated"
    /\ queue[Len(queue)].status = "completed"
    /\ queue[Len(queue)].task_id = cons.tid

\* C18: as long as no external update_task sets the status of a task, its
\* processing step runs at most once however often its job fires: the run
\* that processed it leaves it completed or failed, and every later firing
\* on the stored task ends with InvalidState, changes nothing and appends
\* no notification.
C18_RecurringJobProcessesOnce ==
    /\ [](\A t \in TaskIds :
            ~hist[t].ext
            => /\ hist[t].ran <= 1
               /\ (hist[t].ran = 1 /\ pc["sched"] = "idle" /\ tasks[t] # NoTask)
                  => tasks[t].status \in {"completed", "failed"})
    /\ [][(/\ pc["sched"] = "c_get"
           /\ pc'["sched"] # "c_get"
           /\ hist[cons.tid].ran >= 1
           /\ ~hist[cons.tid].ext
           /\ tasks[cons.tid] # NoTask)
          => /\ pc'["sched"] = "idle"
             /\ ret'["sched"].err = "InvalidState"
             /\ UNCHANGED <<tasks, queue, jobs, subs, hist>>]_vars

\* the cron job of a task has fired a second time after the run that
\* processed the task, and consume_task has refused it
C18_Witness ==
    /\ pc["sched"] = "idle"
    /\ nfires = 2
    /\ ret["sched"].err = "InvalidState"
    /\ tasks[cons.tid] # NoTask
    /\ tasks[cons.tid].cron_expression # None
    /\ jobs[cons.tid] = "cron"
    /\ hist[cons.tid].ran = 1
    /\ ~hist[cons.tid].ext

\* C19: consume_task changes only the status and the result of its task: no
\* commit of an update_task it makes changes another field of a stored
\* row, so a state an external update_task stored while consume_task was in
\* flight stays stored.
C19_ConsumeWritesStatusAndResultOnly ==
    [][(pc["sched"] = "u_commit" /\ call'["sched"] # call["sched"])
       => \A t \in TaskIds :
            (tasks[t] # NoTask /\ tasks'[t] # NoTask)
            => \A k \in TaskFields \ {"status", "result"} :
                 tasks'[t][k] = tasks[t][k]]_vars

\* C20: update_task applies its partial as one change: a get_task that runs
\* while an update_task of consume_task is between two commits never returns
\* the task with one field of the partial already changed to the partial's
\* value and another field not yet at the partial's value.
C20_UpdateIsAtomic ==
    [][\A tid \in TaskIds :
         (/\ get_task(tid)
          /\ tasks[tid] # NoTask
          /\ pc["sched"] = "u_commit"
          /\ call["sched"].tid = tid)
         => LET seen == ret'["client"].val
                partial == call["sched"].arg
                before == cons.task
            IN  ~ \E k1, k2 \in DOMAIN partial :
                    /\ seen[k1] = partial[k1]
                    /\ before[k1] # partial[k1]
                    /\ seen[k2] # partial[k2]]_vars

====
